---- MODULE Spec2Model ----
(***************************************************************************)
(* Model of the two entry points of Canvas-todoist-sync:                   *)
(*   - sync_once / lambda_handler of src/Lambda/Main_Lambda.py, which      *)
(*     keeps a uid -> {task_id, due} mapping in a JSON file, and           *)
(*   - main of src/Main.py, which recovers uids from a marker embedded in  *)
(*     the content of the tasks listed from the sink.                      *)
(* Strings are sequences of one-character strings, so that formatting and  *)
(* the marker regular expression are computed, not assumed.                *)
(* Python's None is the record NoneDue / NoStart of the matching shape.    *)
(***************************************************************************)
EXTENDS Integers, Sequences, FiniteSets, TLC

\* ------------------------------------------------------------------ bounds
MaxEvents == 2
MaxPasses == 2
MaxTime == 2       \* start values are the times and the dates 0..MaxTime
MaxOffset == 1     \* timezone offsets are -MaxOffset..MaxOffset

\* ----------------------------------------------------------------- strings
NoneStr == <<"N", "o", "n", "e">>
DEFAULT_MARKER_LAMBDA == <<"I", "C", "A", "L", "-">>

\* ------------------------------------------------------------- start values
\* DTSTART of a component: absent, a calendar date, or a datetime with or
\* without a timezone (t is the local time, off the offset from UTC).
NoStart == [kind |-> "none", t |-> 0, aware |-> FALSE, off |-> 0]
DateStart(d) == [kind |-> "date", t |-> d, aware |-> FALSE, off |-> 0]
DateTimeStart(t, aware, off) == [kind |-> "datetime", t |-> t, aware |-> aware, off |-> off]

\* The local time taken for the UTC time.
ToUtcKeepsLocal(dt) == dt.t

\* dt_obj.astimezone(timezone.utc) if dt_obj.tzinfo else dt_obj.replace(tzinfo=utc)
ToUtc(dt) == IF dt.aware THEN dt.t - dt.off ELSE dt.t

NoneDue == [form |-> "none", v |-> 0, suffix |-> ""]

get_due_string(dt) ==
    IF dt.kind = "datetime"
    THEN [form |-> "datetime", v |-> ToUtc(dt), suffix |-> "+00:00"]
    ELSE IF dt.kind = "date"
    THEN [form |-> "date", v |-> dt.t, suffix |-> ""]
    ELSE NoneDue

EmptyPayload == [field |-> "none", v |-> 0, suffix |-> ""]

format_due_payload(dt) ==
    IF dt.kind = "datetime"
    THEN [field |-> "due_datetime", v |-> ToUtc(dt), suffix |-> "Z"]
    ELSE IF dt.kind = "date"
    THEN [field |-> "due_date", v |-> dt.t, suffix |-> ""]
    ELSE EmptyPayload

\* ------------------------------------------------------------- the calendar
\* A VEVENT component as parsed by icalendar: UID may be absent.
Component(hasUid, uid, summary, start) ==
    [hasUid |-> hasUid, uid |-> uid, summary |-> summary, start |-> start]

\* The VEVENTs a feed is drawn from: one uid with every variation of summary
\* and start, one component with an empty UID and one without UID.
LambdaComponents ==
    {Component(TRUE, <<"a">>, <<"s">>, NoStart),
     Component(TRUE, <<"a">>, <<"s">>, DateStart(1)),
     Component(TRUE, <<"a">>, <<"s">>, DateStart(2)),
     Component(TRUE, <<"a">>, <<"t">>, DateStart(1)),
     Component(TRUE, <<>>, <<"s">>, DateStart(1)),
     Component(FALSE, <<>>, <<"s">>, DateStart(1)),
     Component(FALSE, <<>>, <<"s">>, DateStart(2))}

SeqsUpTo(S, n) == UNION {[1..k -> S] : k \in 0..n}

LambdaSnapshots == SeqsUpTo(LambdaComponents, MaxEvents)

\* str(component.get("UID")): an absent UID becomes the string "None".
EventOfComponent(c) ==
    [uid |-> IF c.hasUid THEN c.uid ELSE NoneStr,
     summary |-> c.summary,
     start |-> c.start]

fetch_ical_events(components) ==
    [i \in 1..Len(components) |-> EventOfComponent(components[i])]

\* {e["uid"]: e for e in events}: keys in order of first occurrence,
\* each key bound to the last event that carries it.
RECURSIVE MapKeys(_)
MapKeys(evs) ==
    IF evs = <<>> THEN <<>>
    ELSE LET front == SubSeq(evs, 1, Len(evs) - 1)
             last == evs[Len(evs)]
             ks == MapKeys(front)
         IN IF \E i \in 1..Len(ks) : ks[i] = last.uid
            THEN ks ELSE Append(ks, last.uid)

MapGet(evs, uid) ==
    LET idx == {i \in 1..Len(evs) : evs[i].uid = uid}
    IN evs[CHOOSE i \in idx : \A j \in idx : j <= i]

\* ------------------------------------------------------------ dict helpers
EmptyMap == [k \in {} |-> 0]
MapSet(m, k, v) == [x \in DOMAIN m \cup {k} |-> IF x = k THEN v ELSE m[x]]
MapDel(m, k) == [x \in DOMAIN m \ {k} |-> m[x]]

\* ============================================== pure functions of Main.py
DEFAULT_MARKER == <<"I", "C", "U", "I", "D", ":">>
UNTITLED == <<"U", "n", "t", "i", "t", "l", "e", "d", " ", "e", "v", "e", "n", "t">>
DescLimit == 120
\* The character U+2014 of the separator between summary and extras.
EmDash == "U+2014"

\* -------------------------------------------------------- string functions
\* The characters \s of the regular expression and str.strip() take away.
IsSpace(c) == c \in {" ", "\t", "\n", "\r"}

RECURSIVE LStrip(_)
LStrip(str) == IF str # <<>> /\ IsSpace(Head(str)) THEN LStrip(Tail(str)) ELSE str

RECURSIVE RStrip(_)
RStrip(str) ==
    IF str # <<>> /\ IsSpace(str[Len(str)])
    THEN RStrip(SubSeq(str, 1, Len(str) - 1)) ELSE str

Strip(str) == LStrip(RStrip(str))

UpperCase == <<"A", "B", "C", "D", "E", "F", "G", "H", "I", "J", "K", "L", "M",
               "N", "O", "P", "Q", "R", "S", "T", "U", "V", "W", "X", "Y", "Z">>
LowerCase == <<"a", "b", "c", "d", "e", "f", "g", "h", "i", "j", "k", "l", "m",
               "n", "o", "p", "q", "r", "s", "t", "u", "v", "w", "x", "y", "z">>

\* re.IGNORECASE compares characters without their case.
Lower(c) ==
    IF \E k \in 1..Len(UpperCase) : UpperCase[k] = c
    THEN LowerCase[CHOOSE k \in 1..Len(UpperCase) : UpperCase[k] = c]
    ELSE c

\* " | ".join(parts)
RECURSIVE Join(_)
Join(parts) ==
    IF parts = <<>> THEN <<>>
    ELSE IF Len(parts) = 1 THEN parts[1]
    ELSE parts[1] \o <<" ", "|", " ">> \o Join(Tail(parts))

\* ------------------------------------------------------------ isoformat
NoIso == [form |-> "none", v |-> 0, off |-> 0]

\* A date gives YYYY-MM-DD; a datetime gives its local time with its offset
\* (a naive one is taken as UTC): it is not converted to UTC.
isoformat_for_todoist(dt) ==
    IF dt.kind = "date"
    THEN [form |-> "date", v |-> dt.t, off |-> 0]
    ELSE [form |-> "datetime", v |-> dt.t, off |-> IF dt.aware THEN dt.off ELSE 0]

\* ---------------------------------------------------------- parse_calendar
MainComponent(hasUid, uid, summary, description, location, dtstart) ==
    [hasUid |-> hasUid, uid |-> uid, summary |-> summary,
     description |-> description, location |-> location, dtstart |-> dtstart]

\* The VEVENTs a feed is drawn from: the uid a with a change of date, of
\* content and without start, a uid with a blank in it, a component without
\* UID and one with an empty UID and an empty summary.
MainComponents ==
    {MainComponent(TRUE, <<"a">>, <<"s">>, <<>>, <<>>, DateStart(1)),
     MainComponent(TRUE, <<"a">>, <<"s">>, <<>>, <<>>, DateStart(2)),
     MainComponent(TRUE, <<"a">>, <<" ", "t">>, <<"d">>, <<"L">>, DateStart(1)),
     MainComponent(TRUE, <<"a">>, <<"s">>, <<>>, <<>>, NoStart),
     MainComponent(TRUE, <<"b", " ", "c">>, <<"s">>, <<>>, <<>>, DateStart(1)),
     MainComponent(FALSE, <<>>, <<"s">>, <<>>, <<>>, DateStart(1)),
     MainComponent(TRUE, <<>>, <<>>, <<>>, <<>>, NoStart)}

MainSnapshots == SeqsUpTo(MainComponents, MaxEvents)

\* str(comp.get('uid', '')): an absent UID becomes the empty string.
MainEventOfComponent(c) ==
    [uid |-> IF c.hasUid THEN c.uid ELSE <<>>,
     summary |-> Strip(c.summary),
     description |-> Strip(c.description),
     location |-> Strip(c.location),
     dtstart |-> c.dtstart]

parse_calendar(components) ==
    [i \in 1..Len(components) |-> MainEventOfComponent(components[i])]

\* events[:args.limit] when args.limit is neither None nor 0
ApplyLimit(evs, limit) ==
    IF limit = 0 THEN evs
    ELSE SubSeq(evs, 1, IF limit < Len(evs) THEN limit ELSE Len(evs))

\* ------------------------------------------------ content of a task
\* description[:120] + ("..." if len(description) > 120 else "")
ShortDescription(d) ==
    IF Len(d) > DescLimit
    THEN SubSeq(d, 1, DescLimit) \o <<".", ".", ".">>
    ELSE d

Extras(ev) ==
    (IF ev.location # <<>> THEN << <<"@">> \o ev.location >> ELSE <<>>)
    \o (IF ev.description # <<>> THEN <<ShortDescription(ev.description)>> ELSE <<>>)

\* The content create_task_for_event, update_task_for_event and the
\* comparison in main build, each with its own copy of the same statements.
RenderContent(ev, marker) ==
    LET content_main == IF ev.summary # <<>> THEN ev.summary ELSE UNTITLED
        marker_text == <<" ", "(">> \o marker \o ev.uid \o <<")">>
    IN (IF Extras(ev) # <<>>
        THEN content_main \o <<" ", EmDash, " ">> \o Join(Extras(ev))
        ELSE content_main) \o marker_text

\* payload["due_date"] or payload["due_datetime"]
DuePayload(ev) ==
    IF ev.dtstart.kind = "none" THEN [field |-> "none", iso |-> NoIso]
    ELSE IF ev.dtstart.kind = "date"
    THEN [field |-> "due_date", iso |-> isoformat_for_todoist(ev.dtstart)]
    ELSE [field |-> "due_datetime", iso |-> isoformat_for_todoist(ev.dtstart)]

\* ----------------------------------------------- find_existing_tasks_by_uid
\* re.compile(rf"{re.escape(marker)}([^\s)]+)", re.IGNORECASE)
UidChar(c) == ~IsSpace(c) /\ c # ")"

MatchAt(content, marker, i) ==
    /\ i + Len(marker) <= Len(content)
    /\ \A k \in 1..Len(marker) : Lower(content[i + k - 1]) = Lower(marker[k])
    /\ UidChar(content[i + Len(marker)])

HasMatch(content, marker) == \E i \in 1..Len(content) : MatchAt(content, marker, i)

\* pattern.search: the leftmost match; group(1) is the longest run.
SearchStart(content, marker) ==
    CHOOSE i \in 1..Len(content) :
        /\ MatchAt(content, marker, i)
        /\ \A j \in 1..(i - 1) : ~MatchAt(content, marker, j)

Group1(content, marker) ==
    LET from == SearchStart(content, marker) + Len(marker)
        to == CHOOSE e \in from..Len(content) :
                  /\ \A k \in from..e : UidChar(content[k])
                  /\ (e = Len(content) \/ ~UidChar(content[e + 1]))
    IN SubSeq(content, from, to)

\* mapping[uid] = t for every task, in the order of the list: the last task
\* with a uid is the one the mapping keeps.
RECURSIVE find_existing_tasks_by_uid(_, _)
find_existing_tasks_by_uid(ts, marker) ==
    IF ts = <<>> THEN EmptyMap
    ELSE LET front == find_existing_tasks_by_uid(SubSeq(ts, 1, Len(ts) - 1), marker)
             t == ts[Len(ts)]
         IN IF HasMatch(t.content, marker)
            THEN MapSet(front, Strip(Group1(t.content, marker)), t)
            ELSE front

\* ----------------------------------------------------- the sink of main
\* The due of a task as the sink lists it: null without due date, else date
\* (always) and datetime (for a due time), both in UTC.
HoursPerDay == 24
NoSinkDue == [present |-> FALSE, date |-> NoIso, datetime |-> NoIso]

SinkDueOf(payload) ==
    IF payload.field = "due_date"
    THEN [present |-> TRUE, date |-> payload.iso, datetime |-> NoIso]
    ELSE IF payload.field = "due_datetime"
    THEN [present |-> TRUE,
          date |-> [form |-> "date",
                    v |-> (payload.iso.v - payload.iso.off) \div HoursPerDay,
                    off |-> 0],
          datetime |-> [form |-> "datetime", v |-> payload.iso.v - payload.iso.off,
                        off |-> 0]]
    ELSE NoSinkDue

\* ======================================== sync_once (Main_Lambda.py): state
VARIABLES
    file,            \* /tmp/synced_tasks.json: [state, data]
    tasks,           \* the sink: task id -> [content, due, uid], live tasks only
    nextId,          \* the id the sink gives to the next created task
    pc,              \* position of the running pass: "idle", "loop", "deletes"
    passes,          \* number of invocations finished
    events,          \* events fetched by the running (or last) pass
    prior,           \* synced_tasks as loaded at the start of the pass
    synced_tasks,    \* the in-memory mapping uid -> [task_id, due]
    queue,           \* keys of event_uids_map still to be processed
    seen_uids,
    counts,          \* [created, updated, deleted]
    uids_to_delete,  \* uids still to be deleted in this pass
    calls,           \* effect calls of the pass, in order, the save included
    response,        \* what lambda_handler returned last
    prev             \* what the running pass knows of the pass before it

lvars == <<file, tasks, nextId, pc, passes, events, prior, synced_tasks, queue,
           seen_uids, counts, uids_to_delete, calls, response, prev>>

ZeroCounts == [created |-> 0, updated |-> 0, deleted |-> 0]
NoResponse == [statusCode |-> 0, result |-> ZeroCounts, error |-> ""]

\* lambda_handler: the body of the answer is the result of sync_once, or the
\* exception it caught.
Answer(result) == [statusCode |-> 200, result |-> result, error |-> ""]
\* The except branch answering like the try branch.
ErrorAnswerOk(exception) == [statusCode |-> 200, result |-> ZeroCounts, error |-> exception]

ErrorAnswer(exception) == [statusCode |-> 500, result |-> ZeroCounts, error |-> exception]

\* ------------------------------------------------------------ state file
MissingFile == [state |-> "missing", data |-> EmptyMap]
CorruptFile == [state |-> "corrupt", data |-> EmptyMap]

\* A file that open() or the decoding of its bytes refuses (PermissionError,
\* IsADirectoryError, UnicodeDecodeError), and a file that holds the JSON
\* list []: neither is written by save_synced_tasks.
UnreadableFile == [state |-> "unreadable", data |-> EmptyMap]
ListFile == [state |-> "list", data |-> EmptyMap]

\* except (FileNotFoundError, json.JSONDecodeError): every other exception
\* of open and json.load leaves load_synced_tasks.
LoadRaises(f) == f.state = "unreadable"

\* json.load returned a dict: the file written by a save, or {} for a
\* missing or invalid file.
LoadsDict(f) == f.state \in {"missing", "corrupt", "ok"}

\* json.load of what json.dump wrote: keys are str, values are dicts of str
\* or None, which JSON carries unchanged.
load_synced_tasks(f) == IF f.state = "ok" THEN f.data ELSE EmptyMap

\* open(filepath, "w") truncates before json.dump writes: a failed save leaves
\* the old file (open failed) or a truncated one (the write failed).
SaveOutcomes(f, m) ==
    {[ok |-> TRUE, file |-> [state |-> "ok", data |-> m]],
     [ok |-> FALSE, file |-> f],
     [ok |-> FALSE, file |-> CorruptFile]}

\* ---------------------------------------------------------------- the sink
\* Answers of the task sink.  A request that is answered with an error
\* leaves the sink unchanged; a 2xx answer means the sink did what was asked.
CreateStatuses == {200, 500}
UpdateStatuses(id) == IF id \in DOMAIN tasks THEN {200, 204, 500} ELSE {404}
DeleteStatuses(id) == IF id \in DOMAIN tasks THEN {204, 200, 500} ELSE {204, 404}

Is2xx(status) == status \in {200, 204}

\* f"{event['summary']} ({marker}{event['uid']})"
LambdaContent(ev, marker) ==
    ev.summary \o <<" ", "(">> \o marker \o ev.uid \o <<")">>

SinkCreate(ev, marker) ==
    MapSet(tasks, nextId,
           [content |-> LambdaContent(ev, marker),
            due |-> format_due_payload(ev.start),
            uid |-> ev.uid])

SinkUpdate(id, payload) ==
    IF id \in DOMAIN tasks
    THEN [tasks EXCEPT ![id].due = payload]
    ELSE tasks

SinkDelete(id) == MapDel(tasks, id)

\* resp.raise_for_status() in create_task
CreateNeverRaises(status) == FALSE

CreateRaises(status) == status >= 400

\* if resp.status_code not in (200, 204): raise
UpdateRaises(status) == status \notin {200, 204}

\* if resp.status_code != 204: raise
DeleteRaises(status) == status # 204

\* One entry of calls: sent tells whether a request went out, raised whether
\* the called function raised.
Call(op, uid, id, status, sent, raised) ==
    [op |-> op, uid |-> uid, task_id |-> id, status |-> status, sent |-> sent,
     raised |-> raised]

\* -------------------------------------------------------------------- Init
\* The state before the first invocation: no state file, an empty project.
InitFresh ==
    /\ file = MissingFile
    /\ tasks = EmptyMap
    /\ nextId = 1
    /\ pc = "idle"
    /\ passes = 0
    /\ events = <<>>
    /\ prior = EmptyMap
    /\ synced_tasks = EmptyMap
    /\ queue = <<>>
    /\ seen_uids = {}
    /\ counts = ZeroCounts
    /\ uids_to_delete = {}
    /\ calls = <<>>
    /\ response = NoResponse
    /\ prev = [repeat |-> FALSE, failed |-> {}, saved |-> FALSE, kept |-> TRUE]

\* The state a first pass over the feed <<SeedEvent>> leaves when its create
\* and its save succeed (SeedReached shows the fresh state leads to it):
\* runs that start here show in MaxPasses passes what a deployment shows
\* one pass later.
SeedEvent == [uid |-> <<"a">>, summary |-> <<"s">>, start |-> DateStart(1)]
SeedRecord == [task_id |-> 1, due |-> get_due_string(SeedEvent.start)]
SeedMap == MapSet(EmptyMap, SeedEvent.uid, SeedRecord)
SeedTasks ==
    MapSet(EmptyMap, 1,
           [content |-> LambdaContent(SeedEvent, DEFAULT_MARKER_LAMBDA),
            due |-> format_due_payload(SeedEvent.start),
            uid |-> SeedEvent.uid])
SeedCalls ==
    <<Call("create", SeedEvent.uid, 1, 200, TRUE, FALSE),
      Call("save", <<>>, 0, 200, TRUE, FALSE)>>

SeedState ==
    /\ file = [state |-> "ok", data |-> SeedMap]
    /\ tasks = SeedTasks
    /\ nextId = 2
    /\ pc = "idle"
    /\ events = <<SeedEvent>>
    /\ prior = EmptyMap
    /\ synced_tasks = SeedMap
    /\ queue = <<>>
    /\ seen_uids = {SeedEvent.uid}
    /\ counts = [created |-> 1, updated |-> 0, deleted |-> 0]
    /\ uids_to_delete = {}
    /\ calls = SeedCalls
    /\ response = Answer(counts)
    /\ prev = [repeat |-> FALSE, failed |-> {}, saved |-> FALSE, kept |-> TRUE]

InitSeeded == SeedState /\ passes = 0

\* The pass that just ended ran to its end and every answer of the sink and
\* of the store was a success.
LastPassClean ==
    /\ response.statusCode = 200
    /\ \A i \in 1..Len(calls) : calls[i].status < 400

\* What the next pass records of the pass that just ended: whether it reads
\* the same snapshot after a clean pass, which calls the sink failed,
\* whether the state was saved, and whether no save has failed so far.
LastPass(evs) ==
    [repeat |-> LastPassClean /\ evs = events,
     failed |-> {<<calls[i].op, calls[i].uid>> :
                    i \in {j \in 1..Len(calls) : calls[j].status >= 400}},
     saved |-> response.statusCode = 200,
     kept |-> prev.kept /\ \A i \in 1..Len(calls) :
                              calls[i].op = "save" => calls[i].status = 200]

\* ---------------------------------------------------------- lambda_handler
\* load_config raises KeyError when an environment variable is missing:
\* the handler answers 500 and sync_once never runs.
ConfigError ==
    /\ pc = "idle"
    /\ passes < MaxPasses
    /\ prev' = LastPass(<<>>)
    /\ events' = <<>>
    /\ calls' = <<>>
    /\ counts' = ZeroCounts
    /\ response' = ErrorAnswer("KeyError")
    /\ passes' = passes + 1
    /\ UNCHANGED <<file, tasks, nextId, pc, prior, synced_tasks, queue,
                   seen_uids, uids_to_delete>>

\* The state file opened for writing before the calendar is fetched.
FetchFailsAfterOpen ==
    /\ pc = "idle"
    /\ passes < MaxPasses
    /\ prev' = LastPass(<<>>)
    /\ prior' = load_synced_tasks(file)
    /\ synced_tasks' = load_synced_tasks(file)
    /\ events' = <<>>
    /\ calls' = <<>>
    /\ counts' = ZeroCounts
    /\ response' = ErrorAnswer("RequestException")
    /\ passes' = passes + 1
    /\ file' = CorruptFile
    /\ UNCHANGED <<tasks, nextId, pc, queue, seen_uids, uids_to_delete>>

\* sync_once: the state is loaded, then fetch_ical_events raises.
FetchFails ==
    /\ pc = "idle"
    /\ passes < MaxPasses
    /\ ~LoadRaises(file)
    /\ prev' = LastPass(<<>>)
    /\ prior' = load_synced_tasks(file)
    /\ synced_tasks' = load_synced_tasks(file)
    /\ events' = <<>>
    /\ calls' = <<>>
    /\ counts' = ZeroCounts
    /\ response' = ErrorAnswer("RequestException")
    /\ passes' = passes + 1
    /\ UNCHANGED <<file, tasks, nextId, pc, queue, seen_uids, uids_to_delete>>

\* sync_once up to the first iteration of the loop over event_uids_map.
StartPass(components) ==
    /\ pc = "idle"
    /\ passes < MaxPasses
    /\ LoadsDict(file)
    /\ prev' = LastPass(fetch_ical_events(components))
    /\ prior' = load_synced_tasks(file)
    /\ synced_tasks' = load_synced_tasks(file)
    /\ events' = fetch_ical_events(components)
    /\ queue' = MapKeys(fetch_ical_events(components))
    /\ seen_uids' = {}
    /\ counts' = ZeroCounts
    /\ uids_to_delete' = {}
    /\ calls' = <<>>
    /\ response' = NoResponse
    /\ pc' = "loop"
    /\ UNCHANGED <<file, tasks, nextId, passes>>

\* One iteration of "for uid, event in event_uids_map.items()".
CreateStep(status) ==
    LET uid == Head(queue)
        event == MapGet(events, uid)
        event_due_str == get_due_string(event.start)
    IN /\ pc = "loop" /\ queue # <<>>
       /\ uid \notin DOMAIN synced_tasks
       /\ queue' = Tail(queue)
       /\ seen_uids' = seen_uids \cup {uid}
       /\ IF CreateRaises(status)
          THEN /\ calls' = Append(calls, Call("create", uid, 0, status, TRUE, TRUE))
               /\ UNCHANGED <<tasks, nextId, synced_tasks, counts>>
          ELSE /\ calls' = Append(calls, Call("create", uid, nextId, status, TRUE, FALSE))
               /\ tasks' = SinkCreate(event, DEFAULT_MARKER_LAMBDA)
               /\ nextId' = nextId + 1
               /\ synced_tasks' = MapSet(synced_tasks, uid,
                                         [task_id |-> nextId, due |-> event_due_str])
               /\ counts' = [counts EXCEPT !.created = @ + 1]
       /\ UNCHANGED <<file, pc, passes, events, prior, uids_to_delete, response, prev>>

\* update_task_due_date returns without a request when the payload is empty.
UpdateStep(status) ==
    LET uid == Head(queue)
        event == MapGet(events, uid)
        event_due_str == get_due_string(event.start)
        task_id == synced_tasks[uid].task_id
        payload == format_due_payload(event.start)
    IN /\ pc = "loop" /\ queue # <<>>
       /\ uid \in DOMAIN synced_tasks
       /\ synced_tasks[uid].due # event_due_str
       /\ queue' = Tail(queue)
       /\ seen_uids' = seen_uids \cup {uid}
       /\ IF payload = EmptyPayload
          THEN /\ calls' = Append(calls, Call("update", uid, task_id, 0, FALSE, FALSE))
               /\ synced_tasks' = [synced_tasks EXCEPT ![uid].due = event_due_str]
               /\ counts' = [counts EXCEPT !.updated = @ + 1]
               /\ UNCHANGED tasks
          ELSE /\ status \in UpdateStatuses(task_id)
               /\ calls' = Append(calls, Call("update", uid, task_id, status, TRUE, UpdateRaises(status)))
               /\ IF UpdateRaises(status)
                  THEN UNCHANGED <<tasks, synced_tasks, counts>>
                  ELSE /\ tasks' = SinkUpdate(task_id, payload)
                       /\ synced_tasks' = [synced_tasks EXCEPT ![uid].due = event_due_str]
                       /\ counts' = [counts EXCEPT !.updated = @ + 1]
       /\ UNCHANGED <<file, nextId, pc, passes, events, prior, uids_to_delete,
                      response, prev>>

UnchangedStep ==
    LET uid == Head(queue)
        event == MapGet(events, uid)
    IN /\ pc = "loop" /\ queue # <<>>
       /\ uid \in DOMAIN synced_tasks
       /\ synced_tasks[uid].due = get_due_string(event.start)
       /\ queue' = Tail(queue)
       /\ seen_uids' = seen_uids \cup {uid}
       /\ UNCHANGED <<file, tasks, nextId, pc, passes, events, prior, synced_tasks,
                      counts, uids_to_delete, calls, response, prev>>

\* uids_to_delete = set(synced_tasks.keys()) - seen_uids
UidsToDeleteAll(synced, seen) == DOMAIN synced

UidsToDelete(synced, seen) == DOMAIN synced \ seen

BeginDeletes ==
    /\ pc = "loop" /\ queue = <<>>
    /\ uids_to_delete' = UidsToDelete(synced_tasks, seen_uids)
    /\ pc' = "deletes"
    /\ UNCHANGED <<file, tasks, nextId, passes, events, prior, synced_tasks, queue,
                   seen_uids, counts, calls, response, prev>>

\* One iteration of "for uid in list(uids_to_delete)": a set has no order.
DeleteStep(uid, status) ==
    LET task_id == synced_tasks[uid].task_id
    IN /\ pc = "deletes"
       /\ uid \in uids_to_delete
       /\ status \in DeleteStatuses(task_id)
       /\ uids_to_delete' = uids_to_delete \ {uid}
       /\ calls' = Append(calls, Call("delete", uid, task_id, status, TRUE, DeleteRaises(status)))
       /\ tasks' = IF Is2xx(status) THEN SinkDelete(task_id) ELSE tasks
       /\ IF DeleteRaises(status)
          THEN UNCHANGED <<synced_tasks, counts>>
          ELSE /\ synced_tasks' = MapDel(synced_tasks, uid)
               /\ counts' = [counts EXCEPT !.deleted = @ + 1]
       /\ UNCHANGED <<file, nextId, pc, passes, events, prior, queue, seen_uids,
                      response, prev>>

\* save_synced_tasks, then the return of sync_once through lambda_handler.
SaveStep(outcome) ==
    /\ pc = "deletes" /\ uids_to_delete = {}
    /\ file' = outcome.file
    /\ calls' = Append(calls, Call("save", <<>>, 0, IF outcome.ok THEN 200 ELSE 500, TRUE, ~outcome.ok))
    /\ response' = IF outcome.ok THEN Answer(counts) ELSE ErrorAnswer("OSError")
    /\ pc' = "idle"
    /\ passes' = passes + 1
    /\ UNCHANGED <<tasks, nextId, events, prior, synced_tasks, queue, seen_uids,
                   counts, uids_to_delete, prev>>

\* ------------------------------------- a state file that is not a mapping
\* load_synced_tasks raises: sync_once ends with the exception and the
\* handler answers 500.
LoadFails ==
    /\ pc = "idle"
    /\ passes < MaxPasses
    /\ LoadRaises(file)
    /\ prev' = LastPass(<<>>)
    /\ events' = <<>>
    /\ calls' = <<>>
    /\ counts' = ZeroCounts
    /\ response' = ErrorAnswer("PermissionError")
    /\ passes' = passes + 1
    /\ UNCHANGED <<file, tasks, nextId, pc, prior, synced_tasks, queue,
                   seen_uids, uids_to_delete>>

\* sync_once up to the first iteration of the loop, synced_tasks a list.
StartPassOnList(components) ==
    /\ pc = "idle"
    /\ passes < MaxPasses
    /\ file.state = "list"
    /\ prev' = LastPass(fetch_ical_events(components))
    /\ prior' = EmptyMap
    /\ synced_tasks' = EmptyMap
    /\ events' = fetch_ical_events(components)
    /\ queue' = MapKeys(fetch_ical_events(components))
    /\ seen_uids' = {}
    /\ counts' = ZeroCounts
    /\ uids_to_delete' = {}
    /\ calls' = <<>>
    /\ response' = NoResponse
    /\ pc' = "listloop"
    /\ UNCHANGED <<file, tasks, nextId, passes>>

\* "uid not in synced_tasks" holds for every uid; after create_task the
\* assignment synced_tasks[uid] = ... raises TypeError inside the try: the
\* task is in the sink, nothing is recorded and nothing is counted.
CreateOnList(status) ==
    LET uid == Head(queue)
        event == MapGet(events, uid)
    IN /\ pc = "listloop" /\ queue # <<>>
       /\ queue' = Tail(queue)
       /\ seen_uids' = seen_uids \cup {uid}
       /\ IF CreateRaises(status)
          THEN /\ calls' = Append(calls, Call("create", uid, 0, status, TRUE, TRUE))
               /\ UNCHANGED <<tasks, nextId>>
          ELSE /\ calls' = Append(calls, Call("create", uid, nextId, status, TRUE, FALSE))
               /\ tasks' = SinkCreate(event, DEFAULT_MARKER_LAMBDA)
               /\ nextId' = nextId + 1
       /\ UNCHANGED <<file, pc, passes, events, prior, synced_tasks, counts,
                      uids_to_delete, response, prev>>

\* synced_tasks.keys() raises AttributeError outside of any try.
CrashOnKeys ==
    /\ pc = "listloop" /\ queue = <<>>
    /\ response' = ErrorAnswer("AttributeError")
    /\ pc' = "idle"
    /\ passes' = passes + 1
    /\ UNCHANGED <<file, tasks, nextId, events, prior, synced_tasks, queue,
                   seen_uids, counts, uids_to_delete, calls, prev>>

\* ============================================================ main (Main.py)
VARIABLES
    m_args,      \* the parsed command line: marker, dry_run, update_existing, limit, has_token
    m_tasks,     \* the tasks of the project, in the order the sink lists them
    m_nextId,    \* the id the sink gives to the next created task
    m_pc,        \* "idle" or "loop"
    m_passes,    \* number of runs of main that ended
    m_events,    \* the events of the running (or last) run, after --limit
    m_existing,  \* existing_by_uid
    m_i,         \* index of the event the loop is at
    m_counts,    \* [created, updated, skipped]
    m_calls,     \* calls of create_task_for_event / update_task_for_event of the run
    m_outcome,   \* how the last run ended
    m_prev       \* what the running run knows of the run before it

mvars == <<m_args, m_tasks, m_nextId, m_pc, m_passes, m_events, m_existing, m_i,
           m_counts, m_calls, m_outcome, m_prev>>

MainZeroCounts == [created |-> 0, updated |-> 0, skipped |-> 0]

MainArgs ==
    [marker : {DEFAULT_MARKER}, dry_run : BOOLEAN, update_existing : BOOLEAN,
     limit : {0, 1}, has_token : BOOLEAN]

MainInit ==
    /\ m_args \in MainArgs
    /\ m_tasks = <<>>
    /\ m_nextId = 1
    /\ m_pc = "idle"
    /\ m_passes = 0
    /\ m_events = <<>>
    /\ m_existing = EmptyMap
    /\ m_i = 1
    /\ m_counts = MainZeroCounts
    /\ m_calls = <<>>
    /\ m_outcome = "none"
    /\ m_prev = [repeat |-> FALSE]

\* main is not running: the command line of a deployment without options.
MainNotRun ==
    /\ MainInit
    /\ m_args = [marker |-> DEFAULT_MARKER, dry_run |-> FALSE,
                 update_existing |-> FALSE, limit |-> 0, has_token |-> TRUE]

MainCreateStatuses == {200, 500}
MainUpdateStatuses == {200, 204, 500}

\* if r.status_code not in (200, 201): r.raise_for_status()
MainCreateRaises(status) == status \notin {200, 201} /\ status >= 400

\* if r.status_code not in (200, 204): r.raise_for_status()
MainUpdateRaises(status) == status \notin {200, 204} /\ status >= 400

MainCall(op, uid, id, status, sent, content) ==
    [op |-> op, uid |-> uid, task_id |-> id, status |-> status, sent |-> sent,
     content |-> content]

\* The run that just ended created and updated for real, ran to its end and
\* no request failed; the next run reads the same snapshot.
MainLastPass(evs) ==
    [repeat |-> /\ m_outcome = "done"
                /\ ~m_args.dry_run
                /\ \A k \in 1..Len(m_calls) : m_calls[k].status < 400
                /\ evs = m_events]

\* if not args.todoist_token: return
MainNoToken ==
    /\ m_pc = "idle" /\ m_passes < MaxPasses
    /\ ~m_args.has_token
    /\ m_prev' = MainLastPass(<<>>)
    /\ m_events' = <<>>
    /\ m_calls' = <<>>
    /\ m_counts' = MainZeroCounts
    /\ m_outcome' = "no_token"
    /\ m_passes' = m_passes + 1
    /\ UNCHANGED <<m_args, m_tasks, m_nextId, m_pc, m_existing, m_i>>

\* fetch_ics raises: main ends with the exception.
MainFetchFails ==
    /\ m_pc = "idle" /\ m_passes < MaxPasses
    /\ m_args.has_token
    /\ m_prev' = MainLastPass(<<>>)
    /\ m_events' = <<>>
    /\ m_calls' = <<>>
    /\ m_counts' = MainZeroCounts
    /\ m_outcome' = "fetch_error"
    /\ m_passes' = m_passes + 1
    /\ UNCHANGED <<m_args, m_tasks, m_nextId, m_pc, m_existing, m_i>>

\* list_tasks_for_project raises after the calendar was fetched and parsed.
MainListFails(components) ==
    /\ m_pc = "idle" /\ m_passes < MaxPasses
    /\ m_args.has_token
    /\ m_prev' = MainLastPass(<<>>)
    /\ m_events' = ApplyLimit(parse_calendar(components), m_args.limit)
    /\ m_calls' = <<>>
    /\ m_counts' = MainZeroCounts
    /\ m_outcome' = "list_error"
    /\ m_passes' = m_passes + 1
    /\ UNCHANGED <<m_args, m_tasks, m_nextId, m_pc, m_existing, m_i>>

\* main up to the first iteration of "for ev in events".
MainStart(components) ==
    /\ m_pc = "idle" /\ m_passes < MaxPasses
    /\ m_args.has_token
    /\ m_prev' = MainLastPass(ApplyLimit(parse_calendar(components), m_args.limit))
    /\ m_events' = ApplyLimit(parse_calendar(components), m_args.limit)
    /\ m_existing' = find_existing_tasks_by_uid(m_tasks, m_args.marker)
    /\ m_i' = 1
    /\ m_counts' = MainZeroCounts
    /\ m_calls' = <<>>
    /\ m_outcome' = "running"
    /\ m_pc' = "loop"
    /\ UNCHANGED <<m_args, m_tasks, m_nextId, m_passes>>

InLoop == m_pc = "loop" /\ m_i <= Len(m_events)

\* if not uid: skipped += 1; continue
MainSkipNoUid ==
    /\ InLoop
    /\ m_events[m_i].uid = <<>>
    /\ m_counts' = [m_counts EXCEPT !.skipped = @ + 1]
    /\ m_i' = m_i + 1
    /\ UNCHANGED <<m_args, m_tasks, m_nextId, m_pc, m_passes, m_events, m_existing,
                   m_calls, m_outcome, m_prev>>

\* The comparison of content and due of main for --update-existing.
NeedUpdate(existing, ev, marker) ==
    LET new_content == RenderContent(ev, marker)
        existing_due_dt == IF existing.due.present THEN existing.due.date ELSE NoIso
        new_due == IF ev.dtstart.kind # "none"
                   THEN isoformat_for_todoist(ev.dtstart) ELSE NoIso
    IN IF existing.content # new_content THEN TRUE
       ELSE IF (existing_due_dt = NoIso) # (new_due = NoIso) THEN TRUE
       ELSE existing_due_dt # NoIso /\ new_due # NoIso /\ existing_due_dt # new_due

HasExisting == InLoop /\ m_events[m_i].uid # <<>> /\ m_events[m_i].uid \in DOMAIN m_existing

\* The existing task is left alone: skipped += 1
MainSkipExisting ==
    /\ HasExisting
    /\ \/ ~m_args.update_existing
       \/ ~NeedUpdate(m_existing[m_events[m_i].uid], m_events[m_i], m_args.marker)
    /\ m_counts' = [m_counts EXCEPT !.skipped = @ + 1]
    /\ m_i' = m_i + 1
    /\ UNCHANGED <<m_args, m_tasks, m_nextId, m_pc, m_passes, m_events, m_existing,
                   m_calls, m_outcome, m_prev>>

\* existing.get("due", {}) is None when the sink lists "due": null, and
\* None.get raises outside of any try: main ends with the exception.  (A
\* sink that leaves the key out takes the other branches.)
MainCrashOnNullDue ==
    /\ HasExisting
    /\ m_args.update_existing
    /\ ~m_existing[m_events[m_i].uid].due.present
    /\ m_outcome' = "crash"
    /\ m_pc' = "idle"
    /\ m_passes' = m_passes + 1
    /\ UNCHANGED <<m_args, m_tasks, m_nextId, m_events, m_existing, m_i, m_counts,
                   m_calls, m_prev>>

\* The sink after POST /tasks/{id} with content and, for an event with a
\* start, a due field.
MainSinkUpdate(id, content, payload) ==
    [k \in 1..Len(m_tasks) |->
        IF m_tasks[k].id = id
        THEN [id |-> id, content |-> content,
              due |-> IF payload.field = "none" THEN m_tasks[k].due
                      ELSE SinkDueOf(payload)]
        ELSE m_tasks[k]]

\* update_task_for_event, called for an existing task that needs an update.
MainUpdate(status) ==
    LET ev == m_events[m_i]
        existing == m_existing[ev.uid]
        content == RenderContent(ev, m_args.marker)
    IN /\ HasExisting
       /\ m_args.update_existing
       /\ NeedUpdate(existing, ev, m_args.marker)
       /\ m_i' = m_i + 1
       /\ IF m_args.dry_run
          THEN /\ m_calls' = Append(m_calls, MainCall("update", ev.uid, existing.id, 0, FALSE, content))
               /\ m_counts' = [m_counts EXCEPT !.updated = @ + 1]
               /\ UNCHANGED m_tasks
          ELSE /\ m_calls' = Append(m_calls, MainCall("update", ev.uid, existing.id, status, TRUE, content))
               /\ IF MainUpdateRaises(status)
                  THEN UNCHANGED <<m_tasks, m_counts>>
                  ELSE /\ m_tasks' = MainSinkUpdate(existing.id, content, DuePayload(ev))
                       /\ m_counts' = [m_counts EXCEPT !.updated = @ + 1]
       /\ UNCHANGED <<m_args, m_nextId, m_pc, m_passes, m_events, m_existing,
                      m_outcome, m_prev>>

\* create_task_for_event, called for a uid that existing_by_uid does not hold.
MainCreate(status) ==
    LET ev == m_events[m_i]
        content == RenderContent(ev, m_args.marker)
    IN /\ InLoop
       /\ ev.uid # <<>>
       /\ ev.uid \notin DOMAIN m_existing
       /\ m_i' = m_i + 1
       /\ IF m_args.dry_run
          THEN /\ m_calls' = Append(m_calls, MainCall("create", ev.uid, 0, 0, FALSE, content))
               /\ UNCHANGED <<m_tasks, m_nextId, m_counts>>
          ELSE IF MainCreateRaises(status)
          THEN /\ m_calls' = Append(m_calls, MainCall("create", ev.uid, 0, status, TRUE, content))
               /\ UNCHANGED <<m_tasks, m_nextId, m_counts>>
          ELSE /\ m_calls' = Append(m_calls, MainCall("create", ev.uid, m_nextId, status, TRUE, content))
               /\ m_tasks' = Append(m_tasks, [id |-> m_nextId, content |-> content,
                                              due |-> SinkDueOf(DuePayload(ev))])
               /\ m_nextId' = m_nextId + 1
               /\ m_counts' = [m_counts EXCEPT !.created = @ + 1]
       /\ UNCHANGED <<m_args, m_pc, m_passes, m_events, m_existing, m_outcome, m_prev>>

\* The content ends with the marker text " ({marker}{uid})" that the
\* rendering of an event with this uid appends.
CreatedFor(t, uid, marker) ==
    LET marker_text == <<" ", "(">> \o marker \o uid \o <<")">>
    IN /\ Len(t.content) >= Len(marker_text)
       /\ SubSeq(t.content, Len(t.content) - Len(marker_text) + 1, Len(t.content))
             = marker_text

\* main removing, at its end, the tasks whose uid the snapshot lacks.
MainDoneWithDelete ==
    LET Kept(t) == \E i \in 1..Len(m_events) :
                      CreatedFor(t, m_events[i].uid, m_args.marker)
    IN /\ m_pc = "loop" /\ m_i > Len(m_events)
       /\ m_tasks' = SelectSeq(m_tasks, Kept)
       /\ m_outcome' = "done"
       /\ m_pc' = "idle"
       /\ m_passes' = m_passes + 1
       /\ UNCHANGED <<m_args, m_nextId, m_events, m_existing, m_i, m_counts,
                      m_calls, m_prev>>

\* print(f"Done. Created: ...")
MainDone ==
    /\ m_pc = "loop" /\ m_i > Len(m_events)
    /\ m_outcome' = "done"
    /\ m_pc' = "idle"
    /\ m_passes' = m_passes + 1
    /\ UNCHANGED <<m_args, m_tasks, m_nextId, m_events, m_existing, m_i, m_counts,
                   m_calls, m_prev>>

\* ================================================= functions called alone
\* A function of the program applied to arguments of its own, outside of a
\* pass: the arguments, the position and the value returned.
VARIABLES
    p_pc,    \* "off", "called" or "returned"
    p_in,    \* the arguments
    p_out    \* the value returned

pvars == <<p_pc, p_in, p_out>>

vars == <<lvars, mvars, pvars>>

\* No function is called alone.
PureOff == p_pc = "off" /\ p_in = <<>> /\ p_out = <<>>

\* --------------------------------------------------------- specifications
\* Spec: invocations of lambda_handler, one after the other.
LambdaInit == (InitFresh \/ InitSeeded) /\ MainNotRun /\ PureOff

Next ==
    \/ ConfigError /\ UNCHANGED <<mvars, pvars>>
    \/ FetchFails /\ UNCHANGED <<mvars, pvars>>
    \/ \E components \in LambdaSnapshots : StartPass(components) /\ UNCHANGED <<mvars, pvars>>
    \/ \E status \in CreateStatuses : CreateStep(status) /\ UNCHANGED <<mvars, pvars>>
    \/ \E status \in {200, 204, 404, 500} : UpdateStep(status) /\ UNCHANGED <<mvars, pvars>>
    \/ UnchangedStep /\ UNCHANGED <<mvars, pvars>>
    \/ BeginDeletes /\ UNCHANGED <<mvars, pvars>>
    \/ \E uid \in uids_to_delete : \E status \in {200, 204, 404, 500} : DeleteStep(uid, status) /\ UNCHANGED <<mvars, pvars>>
    \/ \E outcome \in SaveOutcomes(file, synced_tasks) : SaveStep(outcome) /\ UNCHANGED <<mvars, pvars>>

Spec == LambdaInit /\ [][Next]_vars

\* SpecMain: runs of main, one after the other, with one command line.
SpecMainInit == InitFresh /\ MainInit /\ PureOff

SpecMainNext ==
    \/ MainNoToken /\ UNCHANGED <<lvars, pvars>>
    \/ MainFetchFails /\ UNCHANGED <<lvars, pvars>>
    \/ \E components \in MainSnapshots : MainListFails(components) /\ UNCHANGED <<lvars, pvars>>
    \/ \E components \in MainSnapshots : MainStart(components) /\ UNCHANGED <<lvars, pvars>>
    \/ MainSkipNoUid /\ UNCHANGED <<lvars, pvars>>
    \/ MainSkipExisting /\ UNCHANGED <<lvars, pvars>>
    \/ MainCrashOnNullDue /\ UNCHANGED <<lvars, pvars>>
    \/ \E status \in MainUpdateStatuses : MainUpdate(status) /\ UNCHANGED <<lvars, pvars>>
    \/ \E status \in MainCreateStatuses : MainCreate(status) /\ UNCHANGED <<lvars, pvars>>
    \/ MainDone /\ UNCHANGED <<lvars, pvars>>

SpecMain == SpecMainInit /\ [][SpecMainNext]_vars

\* SpecEither: a deployment runs one of the two entry points, the handler or
\* the command line, never both.
LambdaAlone == MainNotRun
MainAlone == pc = "idle" /\ passes = 0 /\ calls = <<>>

EitherInit == LambdaInit \/ SpecMainInit

EitherNext ==
    \/ LambdaAlone /\ ConfigError /\ UNCHANGED <<mvars, pvars>>
    \/ LambdaAlone /\ FetchFails /\ UNCHANGED <<mvars, pvars>>
    \/ \E components \in LambdaSnapshots :
          LambdaAlone /\ StartPass(components) /\ UNCHANGED <<mvars, pvars>>
    \/ \E status \in CreateStatuses : CreateStep(status) /\ UNCHANGED <<mvars, pvars>>
    \/ \E status \in {200, 204, 404, 500} : UpdateStep(status) /\ UNCHANGED <<mvars, pvars>>
    \/ UnchangedStep /\ UNCHANGED <<mvars, pvars>>
    \/ BeginDeletes /\ UNCHANGED <<mvars, pvars>>
    \/ \E uid \in uids_to_delete : \E status \in {200, 204, 404, 500} :
          DeleteStep(uid, status) /\ UNCHANGED <<mvars, pvars>>
    \/ \E outcome \in SaveOutcomes(file, synced_tasks) :
          SaveStep(outcome) /\ UNCHANGED <<mvars, pvars>>
    \/ MainAlone /\ MainNoToken /\ UNCHANGED <<lvars, pvars>>
    \/ MainAlone /\ MainFetchFails /\ UNCHANGED <<lvars, pvars>>
    \/ \E components \in MainSnapshots :
          MainAlone /\ MainListFails(components) /\ UNCHANGED <<lvars, pvars>>
    \/ \E components \in MainSnapshots :
          MainAlone /\ MainStart(components) /\ UNCHANGED <<lvars, pvars>>
    \/ MainSkipNoUid /\ UNCHANGED <<lvars, pvars>>
    \/ MainSkipExisting /\ UNCHANGED <<lvars, pvars>>
    \/ MainCrashOnNullDue /\ UNCHANGED <<lvars, pvars>>
    \/ \E status \in MainUpdateStatuses : MainUpdate(status) /\ UNCHANGED <<lvars, pvars>>
    \/ \E status \in MainCreateStatuses : MainCreate(status) /\ UNCHANGED <<lvars, pvars>>
    \/ MainDone /\ UNCHANGED <<lvars, pvars>>

SpecEither == EitherInit /\ [][EitherNext]_vars

\* SpecStore: invocations of lambda_handler over a state file that was
\* written by the program or by something else.
StoreInit ==
    /\ file \in {MissingFile, CorruptFile, UnreadableFile, ListFile}
    /\ tasks = EmptyMap
    /\ nextId = 1
    /\ pc = "idle"
    /\ passes = 0
    /\ events = <<>>
    /\ prior = EmptyMap
    /\ synced_tasks = EmptyMap
    /\ queue = <<>>
    /\ seen_uids = {}
    /\ counts = ZeroCounts
    /\ uids_to_delete = {}
    /\ calls = <<>>
    /\ response = NoResponse
    /\ prev = [repeat |-> FALSE, failed |-> {}, saved |-> FALSE, kept |-> TRUE]
    /\ MainNotRun /\ PureOff

StoreNext ==
    \/ ConfigError /\ UNCHANGED <<mvars, pvars>>
    \/ FetchFails /\ UNCHANGED <<mvars, pvars>>
    \/ LoadFails /\ UNCHANGED <<mvars, pvars>>
    \/ \E components \in LambdaSnapshots : StartPass(components) /\ UNCHANGED <<mvars, pvars>>
    \/ \E components \in LambdaSnapshots : StartPassOnList(components) /\ UNCHANGED <<mvars, pvars>>
    \/ \E status \in CreateStatuses : CreateOnList(status) /\ UNCHANGED <<mvars, pvars>>
    \/ CrashOnKeys /\ UNCHANGED <<mvars, pvars>>
    \/ \E status \in CreateStatuses : CreateStep(status) /\ UNCHANGED <<mvars, pvars>>
    \/ \E status \in {200, 204, 404, 500} : UpdateStep(status) /\ UNCHANGED <<mvars, pvars>>
    \/ UnchangedStep /\ UNCHANGED <<mvars, pvars>>
    \/ BeginDeletes /\ UNCHANGED <<mvars, pvars>>
    \/ \E uid \in uids_to_delete : \E status \in {200, 204, 404, 500} :
          DeleteStep(uid, status) /\ UNCHANGED <<mvars, pvars>>
    \/ \E outcome \in SaveOutcomes(file, synced_tasks) :
          SaveStep(outcome) /\ UNCHANGED <<mvars, pvars>>

SpecStore == StoreInit /\ [][StoreNext]_vars

\* SpecDue: get_due_string called on the start an event had in one pass and
\* on the start it has in the next.
DueStarts ==
    {NoStart}
    \cup {DateStart(d) : d \in 0..MaxTime}
    \cup {DateTimeStart(t, FALSE, 0) : t \in 0..MaxTime}
    \cup {DateTimeStart(t, TRUE, off) : t \in 0..MaxTime, off \in (-MaxOffset)..MaxOffset}

DueInit ==
    /\ InitFresh /\ MainNotRun
    /\ p_pc = "called"
    /\ p_in \in DueStarts \X DueStarts
    /\ p_out = <<>>

CallDue ==
    /\ p_pc = "called"
    /\ p_out' = <<get_due_string(p_in[1]), get_due_string(p_in[2])>>
    /\ p_pc' = "returned"
    /\ UNCHANGED <<lvars, mvars, p_in>>

DueNext == CallDue

SpecDue == DueInit /\ [][DueNext]_vars

\* SpecMarker: find_existing_tasks_by_uid called on the one task whose
\* content create_task_for_event rendered for an event.
MarkerUids == {<<"a">>, <<"a", "2">>, <<"b", " ", "c">>, <<"a", ")">>}
Markers == {DEFAULT_MARKER, <<"#">>}
MarkerSummaries == {<<"s">>, <<"s", " ", "t">>, <<"#", "x">>}
MarkerLocations == {<<"L">>, <<"i", "c", "u", "i", "d", ":", "z">>}
MarkerDescriptions == {<<"d">>, <<"(", "d", ")">>}

MarkerInit ==
    /\ InitFresh /\ MainNotRun
    /\ p_pc = "called"
    /\ p_in \in [uid : MarkerUids, marker : Markers, summary : MarkerSummaries,
                 location : MarkerLocations, description : MarkerDescriptions,
                 dtstart : {DateStart(1)}]
    /\ p_out = <<>>

\* The task the sink lists after create_task_for_event(p_in).
RenderedTask ==
    [id |-> 1, content |-> RenderContent(p_in, p_in.marker),
     due |-> SinkDueOf(DuePayload(p_in))]

CallFind ==
    /\ p_pc = "called"
    /\ p_out' = find_existing_tasks_by_uid(<<RenderedTask>>, p_in.marker)
    /\ p_pc' = "returned"
    /\ UNCHANGED <<lvars, mvars, p_in>>

MarkerNext == CallFind

SpecMarker == MarkerInit /\ [][MarkerNext]_vars

\* ------------------------------------------------------- reading the calls
Uids(evs) == {evs[i].uid : i \in 1..Len(evs)}
CallIdx(op) == {i \in 1..Len(calls) : calls[i].op = op}
CallUids(op) == {calls[i].uid : i \in CallIdx(op)}
EffectIdx == {i \in 1..Len(calls) : calls[i].op # "save"}

\* sync_once ran to its end: the last call of the pass is the save.
PassEnded == pc = "idle" /\ calls # <<>> /\ calls[Len(calls)].op = "save"

\* The answer of the sink was a success (2xx) or a failure.
SinkOk(c) == c.status < 400

\* The fresh state leads to the seeded one.
SeedReached == SeedState /\ passes = 1

\* ------------------------------------------------------------------ claims

\* C3: in one pass of sync_once the uids for which create, update and delete
\* are attempted are pairwise disjoint, no uid is attempted twice, and at the
\* end of the pass create was attempted exactly for the uids of the snapshot
\* without prior record, delete exactly for the prior uids absent from the
\* snapshot, update only for uids of the snapshot with a prior record: every
\* uid of uids(E) \cup keys(S) is one of create, update, unchanged, delete.
C3_Partition ==
    LET C == CallUids("create")
        U == CallUids("update")
        D == CallUids("delete")
        E == Uids(events)
        S == DOMAIN prior
    IN /\ C \cap U = {} /\ C \cap D = {} /\ U \cap D = {}
       /\ \A i, j \in EffectIdx : calls[i].uid = calls[j].uid => i = j
       /\ C \cup U \cup D \subseteq E \cup S
       /\ PassEnded => /\ C = E \ S
                       /\ D = S \ E
                       /\ U \subseteq E \cap S

\* A pass that attempted a create, an update and a delete.
C3_Witness ==
    /\ PassEnded
    /\ CallUids("create") # {}
    /\ CallUids("update") # {}
    /\ CallUids("delete") # {}

\* C4: when a create call fails for a uid, the pass goes on with the other
\* items (it reaches its end with every uid of the snapshot handled), the
\* uid has no record in the in-memory mapping nor in the state the pass
\* saves, the uid is not counted as created, and the next pass over a
\* snapshot that still holds the uid attempts the create again.
FailedCreates == {i \in CallIdx("create") : ~SinkOk(calls[i])}

C4_CreateFailure ==
    /\ \A i \in FailedCreates :
          /\ calls[i].uid \notin DOMAIN synced_tasks
          /\ pc = "loop" => ENABLED (UnchangedStep \/ BeginDeletes
                                     \/ (\E st \in CreateStatuses : CreateStep(st))
                                     \/ (\E st \in {200, 204, 404, 500} : UpdateStep(st)))
    /\ counts.created = Cardinality(CallIdx("create") \ FailedCreates)
    /\ PassEnded =>
          /\ seen_uids = Uids(events)
          /\ \A i \in FailedCreates :
                calls[i].uid \notin DOMAIN load_synced_tasks(file)
          /\ \A u \in Uids(events) :
                <<"create", u>> \in prev.failed => u \in CallUids("create")

\* A pass in which a create failed and a later create succeeded, and the
\* pass after a failed create that attempts it again.
C4_Witness ==
    /\ PassEnded
    /\ \E i \in FailedCreates : \E j \in CallIdx("create") : j > i /\ SinkOk(calls[j])
    /\ \E u \in Uids(events) : <<"create", u>> \in prev.failed

\* C1: a pass of sync_once that follows a pass without sink or store failure
\* and reads the same snapshot invokes no create, update or delete and
\* reports created = updated = deleted = 0.
C1_Idempotence ==
    (PassEnded /\ prev.repeat) => (EffectIdx = {} /\ counts = ZeroCounts)

\* C5: for every uid of the prior state that is absent from the snapshot,
\* delete is invoked exactly once, on the stored task_id; the record is
\* removed if the sink deleted the task and is unchanged if the sink failed,
\* and a failed delete is attempted again by the next pass.
C5_DeleteAbsent ==
    PassEnded =>
       /\ \A u \in DOMAIN prior \ Uids(events) :
             LET idx == {i \in CallIdx("delete") : calls[i].uid = u}
             IN /\ Cardinality(idx) = 1
                /\ \A i \in idx :
                      /\ calls[i].task_id = prior[u].task_id
                      /\ SinkOk(calls[i]) => u \notin DOMAIN synced_tasks
                      /\ ~SinkOk(calls[i]) =>
                            u \in DOMAIN synced_tasks /\ synced_tasks[u] = prior[u]
       /\ \A u \in DOMAIN prior \ Uids(events) :
             (<<"delete", u>> \in prev.failed /\ prev.saved) => u \in CallUids("delete")

\* C6: a delete that the sink answers with 204 or with 200 succeeded:
\* delete_task returns normally, the record of the uid is removed and the
\* uid is counted as deleted; any other answer is a failure.
C6_Delete200Or204 ==
    /\ \A i \in CallIdx("delete") :
          IF calls[i].status \in {200, 204}
          THEN ~calls[i].raised /\ calls[i].uid \notin DOMAIN synced_tasks
          ELSE calls[i].raised /\ calls[i].uid \in DOMAIN synced_tasks
    /\ counts.deleted =
          Cardinality({i \in CallIdx("delete") : calls[i].status \in {200, 204}})

\* The mapping a pass has to save: a new record for every create the sink
\* accepted, the due of the event for every update that succeeded, no record
\* for every delete the sink carried out.
OkUids(op) == {calls[i].uid : i \in {j \in CallIdx(op) : SinkOk(calls[j])}}

ExpectedSaved ==
    [u \in (DOMAIN prior \cup OkUids("create")) \ OkUids("delete") |->
        IF u \in OkUids("create")
        THEN [task_id |-> calls[CHOOSE i \in CallIdx("create") :
                                   calls[i].uid = u /\ SinkOk(calls[i])].task_id,
              due |-> get_due_string(MapGet(events, u).start)]
        ELSE IF u \in OkUids("update")
        THEN [task_id |-> prior[u].task_id,
              due |-> get_due_string(MapGet(events, u).start)]
        ELSE prior[u]]

\* C7: a pass whose fetch succeeded saves the IdentitySet exactly once, after
\* all its effect attempts and whichever of them failed, and the saved
\* mapping reflects every effect that succeeded.
C7_SavedOnceWithProgress ==
    /\ pc # "idle" => CallIdx("save") = {}
    /\ PassEnded =>
          /\ CallIdx("save") = {Len(calls)}
          /\ calls[Len(calls)].status = 200 =>
                file = [state |-> "ok", data |-> ExpectedSaved]

\* C8: for an event with a prior record an update is attempted if and only
\* if its due string differs from the stored due; the attempt is one update
\* request to the sink on the stored task_id; the stored due is refreshed if
\* it succeeds and unchanged if it fails (so the next pass attempts it again).
C8_UpdateOnDueChange ==
    PassEnded =>
       \A u \in Uids(events) \cap DOMAIN prior :
          LET due == get_due_string(MapGet(events, u).start)
              idx == {i \in CallIdx("update") : calls[i].uid = u}
          IN /\ (idx # {}) <=> (prior[u].due # due)
             /\ Cardinality(idx) <= 1
             /\ \A i \in idx :
                   /\ calls[i].sent
                   /\ calls[i].task_id = prior[u].task_id
                   /\ SinkOk(calls[i]) => synced_tasks[u].due = due
                   /\ ~SinkOk(calls[i]) => synced_tasks[u] = prior[u]

\* C9 (sync_once): an event whose UID is empty or absent is left out of the
\* reconciliation: no create, update or delete is attempted for it and no
\* record is written for it.  (fetch_ical_events turns an absent UID into
\* the string "None".)
NoUid == {<<>>, NoneStr}

C9_NoUidExcluded_Lambda ==
    /\ \A i \in EffectIdx : calls[i].uid \notin NoUid
    /\ DOMAIN synced_tasks \cap NoUid = {}
    /\ DOMAIN load_synced_tasks(file) \cap NoUid = {}

\* ------------------------------------------------- reading the calls of main
\* main ran to its end.
MainEnded == m_pc = "idle" /\ m_outcome = "done"
MainSentIdx == {k \in 1..Len(m_calls) : m_calls[k].sent}
MainCallIdx(op) == {k \in 1..Len(m_calls) : m_calls[k].op = op}

\* The last event of the snapshot that carries the uid.
LastEventWith(evs, uid) ==
    evs[CHOOSE i \in 1..Len(evs) :
            evs[i].uid = uid /\ \A j \in (i + 1)..Len(evs) : evs[j].uid # uid]

\* C2: a run of main that follows a run which created its tasks without sink
\* failure, over the same snapshot of events with non-empty uids and against
\* the task list the first run left, creates no task: every uid is recovered
\* from the marker in the content and found in existing_by_uid.
C2_NoSecondCreate ==
    (/\ m_pc = "loop" \/ MainEnded
     /\ m_prev.repeat
     /\ \A i \in 1..Len(m_events) : m_events[i].uid # <<>>)
    => /\ MainCallIdx("create") = {}
       /\ Uids(m_events) \subseteq DOMAIN m_existing

\* C10 (main): for a uid that several events of the snapshot carry, a run
\* sends at most one request (one create or one update), and its content is
\* the one of the last event with that uid.
C10_OneEffectPerUid_Main ==
    \A k \in MainSentIdx :
       /\ \A l \in MainSentIdx : m_calls[l].uid = m_calls[k].uid => l = k
       /\ MainEnded =>
             m_calls[k].content =
                RenderContent(LastEventWith(m_events, m_calls[k].uid), m_args.marker)

\* C10 (sync_once): at most one create or update is attempted for a uid, for
\* the last event of the snapshot with that uid.
C10_OneEffectPerUid_Lambda ==
    \A i \in CallIdx("create") \cup CallIdx("update") :
       /\ \A j \in CallIdx("create") \cup CallIdx("update") :
             calls[j].uid = calls[i].uid => j = i
       /\ (calls[i].op = "create" /\ SinkOk(calls[i])) =>
             /\ tasks[calls[i].task_id].content =
                   LambdaContent(LastEventWith(events, calls[i].uid), DEFAULT_MARKER_LAMBDA)
             /\ synced_tasks[calls[i].uid].due =
                   get_due_string(LastEventWith(events, calls[i].uid).start)

\* C11: a run of main with --dry-run sends no create and no update request
\* and reports every computed effect: at its end created and updated equal
\* the number of events for which create_task_for_event, respectively
\* update_task_for_event, was called.
C11_DryRunReports ==
    (MainEnded /\ m_args.dry_run) =>
       /\ MainSentIdx = {}
       /\ m_counts.created = Cardinality(MainCallIdx("create"))
       /\ m_counts.updated = Cardinality(MainCallIdx("update"))

\* C12: a pass of sync_once whose calendar fetch fails, and a run of main
\* whose calendar fetch or task listing fails, ends at once: no create,
\* update or delete call is made, the state file is not written, and the
\* state file and the sink are as they were before the pass.
LambdaFetchAbort ==
    pc = "idle" /\ passes' = passes + 1 /\ response'.error = "RequestException"

MainFetchAbort ==
    m_pc = "idle" /\ m_passes' = m_passes + 1
    /\ m_outcome' \in {"fetch_error", "list_error"}

C12_AbortBeforeEffects ==
    [][/\ LambdaFetchAbort =>
             file' = file /\ tasks' = tasks /\ calls' = <<>> /\ pc' = "idle"
       /\ MainFetchAbort =>
             m_tasks' = m_tasks /\ m_calls' = <<>> /\ m_pc' = "idle"]_vars

\* A pass of sync_once aborted by the fetch with a record in the state file
\* and a task in the sink.
C12_Witness ==
    /\ pc = "idle" /\ response.error = "RequestException"
    /\ calls = <<>>
    /\ file.state = "ok" /\ DOMAIN file.data # {}
    /\ DOMAIN tasks # {}

\* A run of main aborted by the task listing with a task in the project.
C12_Witness_Main ==
    /\ m_pc = "idle" /\ m_outcome = "list_error"
    /\ m_calls = <<>> /\ m_events # <<>>
    /\ m_tasks # <<>>

\* C13: lambda_handler answers 200 with the counts of the pass exactly when
\* sync_once ran to its end and saved the state, whichever create, update or
\* delete calls failed; it answers 500 when the configuration is missing,
\* when the calendar fetch fails, or when the state cannot be written after
\* the effects have run; it gives no other answer.
C13_HandlerStatus ==
    /\ pc # "idle" => response = NoResponse
    /\ (pc = "idle" /\ (passes > 0 \/ calls # <<>>)) =>
          /\ response.statusCode \in {200, 500}
          /\ response.statusCode = 200 <=>
                (PassEnded /\ calls[Len(calls)].status = 200)
          /\ response.statusCode = 200 =>
                /\ response = Answer(counts)
                /\ file = [state |-> "ok", data |-> synced_tasks]
                /\ counts.created = Cardinality({i \in CallIdx("create") : ~calls[i].raised})
                /\ counts.deleted = Cardinality({i \in CallIdx("delete") : ~calls[i].raised})
          /\ response.statusCode = 500 =>
                /\ response.result = ZeroCounts
                /\ response.error \in {"KeyError", "RequestException", "OSError"}
                /\ response.error = "OSError" <=> PassEnded
                /\ response.error # "OSError" => calls = <<>>

\* A pass answered with 200 although a create, an update or a delete failed,
\* after a pass answered with 500.
C13_Witness ==
    /\ PassEnded /\ response.statusCode = 200
    /\ \E i \in EffectIdx : calls[i].raised
    /\ ~prev.saved /\ passes = 2

\* A pass answered with 500 because the save failed after a create succeeded.
C13_Witness_SaveFailed ==
    /\ PassEnded /\ response.statusCode = 500
    /\ \E i \in CallIdx("create") : SinkOk(calls[i])

\* C14: loading the state never fails the pass.  Whatever the state file
\* holds, a pass whose configuration is present and whose fetch succeeds
\* runs to its save, and when the file is not one a save wrote, the pass
\* starts from the empty mapping.
C14_LoadNeverFails ==
    /\ (pc = "idle" /\ passes > 0) =>
          /\ response.error \in {"", "KeyError", "RequestException", "OSError"}
          /\ response.error \in {"", "OSError"} => PassEnded
    /\ (pc # "idle" /\ file.state # "ok") => prior = EmptyMap

Instant(dt) == IF dt.aware THEN dt.t - dt.off ELSE dt.t

\* The fingerprints of two starts agree exactly when both are times of the
\* same instant, both the same date, or both absent; so an event whose start
\* is written in another timezone for the same instant has the stored due
\* and is not updated.
FingerprintsAgree ==
    LET a == p_in[1]
        b == p_in[2]
    IN /\ (a.kind = "datetime" /\ b.kind = "datetime") =>
             ((p_out[1] = p_out[2]) <=> (Instant(a) = Instant(b)))
       /\ (a.kind = "date" /\ b.kind = "date") =>
             ((p_out[1] = p_out[2]) <=> (a.t = b.t))
       /\ a.kind # b.kind => p_out[1] # p_out[2]
       /\ \A k \in {1, 2} :
             /\ p_in[k].kind = "datetime" =>
                   p_out[k].form = "datetime" /\ p_out[k].v = Instant(p_in[k])
             /\ p_in[k].kind = "date" =>
                   p_out[k] = [form |-> "date", v |-> p_in[k].t, suffix |-> ""]
             /\ p_in[k].kind = "none" => p_out[k] = NoneDue

\* C16, as stated: the fingerprint depends only on the kind of the start and
\* its normalized value (same instant, same date), and the fingerprint of a
\* time is the UTC time with the suffix Z.
C16_FingerprintZ ==
    p_pc = "returned" =>
       /\ FingerprintsAgree
       /\ \A k \in {1, 2} : p_in[k].kind = "datetime" => p_out[k].suffix = "Z"

\* C16, amended: the same, and the fingerprint of a time is the UTC time
\* with the offset suffix +00:00 that isoformat() writes.
C16_Fingerprint ==
    p_pc = "returned" =>
       /\ FingerprintsAgree
       /\ \A k \in {1, 2} : p_in[k].kind = "datetime" => p_out[k].suffix = "+00:00"

\* Two times of one instant written with different offsets, with the same
\* fingerprint.
C16_Witness ==
    /\ p_pc = "returned"
    /\ p_in[1].kind = "datetime" /\ p_in[2].kind = "datetime"
    /\ p_in[1].aware /\ p_in[2].aware
    /\ p_in[1].off # p_in[2].off /\ p_in[1].t # p_in[2].t
    /\ Instant(p_in[1]) = Instant(p_in[2])
    /\ p_out[1] = p_out[2]

\* No save has failed: the state file holds what the last pass that ran to
\* its end wanted to keep.
StoreKept == prev.kept /\ \A i \in CallIdx("save") : calls[i].status = 200

\* C17: between passes of sync_once, with a store that lost nothing, the
\* sink holds at most one live task per uid, every live task is referenced
\* by exactly one record of the state file, and every record references a
\* live task.
C17_OneTaskPerUid ==
    (pc = "idle" /\ StoreKept) =>
       LET S == load_synced_tasks(file)
       IN /\ \A t1, t2 \in DOMAIN tasks : tasks[t1].uid = tasks[t2].uid => t1 = t2
          /\ \A t \in DOMAIN tasks :
                Cardinality({u \in DOMAIN S : S[u].task_id = t}) = 1
          /\ \A u \in DOMAIN S : S[u].task_id \in DOMAIN tasks

\* C18: the counts of a pass of sync_once are the numbers of sink calls that
\* succeeded: created counts the creates the sink accepted, updated the
\* update requests that were sent and accepted, deleted the deletes the sink
\* carried out; an event without start is counted as updated only if a
\* request went out for it.
C18_CountsFaithful ==
    /\ counts.created =
          Cardinality({i \in CallIdx("create") : calls[i].sent /\ SinkOk(calls[i])})
    /\ counts.updated =
          Cardinality({i \in CallIdx("update") : calls[i].sent /\ SinkOk(calls[i])})
    /\ counts.deleted =
          Cardinality({i \in CallIdx("delete") : calls[i].sent /\ SinkOk(calls[i])})
    /\ pc = "idle" /\ response.statusCode = 200 => response.result = counts

\* C19: after a pass of sync_once in which no sink call and no save failed,
\* the keys of the state file are the uids of the snapshot, the due of each
\* record is the due string of its event, the task each record references is
\* live and has the due of the event's start, and a pass that follows over
\* the same snapshot makes no sink call.
C19_Convergence ==
    (PassEnded /\ LastPassClean) =>
       LET S == load_synced_tasks(file)
       IN /\ DOMAIN S = Uids(events)
          /\ \A u \in DOMAIN S \cap Uids(events) :
                /\ S[u].due = get_due_string(MapGet(events, u).start)
                /\ S[u].task_id \in DOMAIN tasks
                /\ S[u].task_id \in DOMAIN tasks =>
                      tasks[S[u].task_id].due = format_due_payload(MapGet(events, u).start)
          /\ prev.repeat => EffectIdx = {}

\* C20: for a non-empty uid, marker, summary, location and description,
\* find_existing_tasks_by_uid maps the uid of the event, and no other uid,
\* to the task whose content was rendered for the event.
C20_MarkerRoundTrip ==
    p_pc = "returned" =>
       /\ DOMAIN p_out = {p_in.uid}
       /\ \A u \in DOMAIN p_out : p_out[u] = RenderedTask

====
